---- MODULE Spec2Model ----
(***************************************************************************)
(* Esports-Trajectory: the resumable ingestion core.                       *)
(*   data/mw.py            HourlyRateLimiter, MediaWikiClient              *)
(*   data/stages/players.py  the checkpointed players stage                *)
(*   data/db.py            checkpoints, players, team_stints               *)
(*   data/cache.py         the content cache, also on texts                *)
(*   data/stages/careers.py  the career aggregation                        *)
(*   run_etl.py            the process: both stages and the exit code      *)
(* Time is counted in ticks of half a second, the grain of the limiter's   *)
(* jitter random.uniform(0.5, 3.0).                                        *)
(***************************************************************************)
EXTENDS Integers, Sequences, FiniteSets, TLC

\* ------------------------------------------------------------------ bounds
\* HourlyRateLimiter(max_requests, window_seconds): the client builds it
\* with (60, 3600); the model runs it with a small capacity and window.
max_requests == 2
window_seconds == 3
\* longest pause between two calls, and longest oversleep of time.sleep
MaxElapse == 2
\* the retry budget the stage's client is built with (the default is larger)
StageRetries == 1
\* how many times the process is started
MaxRuns == 2
\* the longest text written to the cache, in characters
MaxTextLen == 2
\* the last day, in days, on which an aggregation runs
MaxToday == 4

\* --------------------------------------------------------- program constants
\* MediaWikiClient.__init__(..., max_retries: int = 8)
DefaultRetries == 8
\* random.uniform(0.5, 3.0) in ticks of 0.5 s
JitterMin == 1
JitterMax == 6
\* max(1.0, sleep_for) in ticks
MinSleep == 2
\* backoff durations, in units of 1/3125 s (so that * 1.6 stays exact)
BackoffBase == 31250
BackoffCapServer == 375000
BackoffCapExc == 562500
WaitFloor == 31250
WaitCeil == 187500
HtmlLimitFloor == 187500
HtmlLimitCeil == 562500
HtmlExcFloor == 93750
HtmlExcCeil == 375000

Max(a, b) == IF a >= b THEN a ELSE b
Min(a, b) == IF a <= b THEN a ELSE b

VARIABLES
  \* ---- HourlyRateLimiter
  timestamps,   \* self.timestamps, oldest first; each entry is kept as its
                \* age now - t, saturated at window_seconds
  admitted,     \* history: the age of every admission still inside the window
  lastBranch,   \* which branch of wait_for_slot recorded the last admission
  \* ---- MediaWikiClient, the call in progress
  callKind,     \* "none", "_request" or "fetch_full_html"
  cpc,          \* "idle", "slot" (before wait_for_slot), "get" (before
                \* session.get), "returned"
  attempt,      \* loop variable of range(1, max_retries + 1)
  backoff,      \* local backoff
  lastWait,     \* the wait computed for the last failed attempt (0: none)
  prevBackoff,  \* history: backoff before the last failed attempt (0: none)
  lastResp,     \* the response of the last session.get of this call
  callResult,   \* "none", "ok", "RateLimited", "RuntimeError"
  callBody,     \* the content a successful call returns
  slots,        \* timestamps the limiter recorded since this call began
  nets          \* session.get calls issued since this call began

limiterVars == <<timestamps, admitted, lastBranch>>
clientVars == <<callKind, cpc, attempt, backoff, lastWait, prevBackoff,
                lastResp, callResult, callBody, slots, nets>>

VARIABLES
  \* ---- what outlives the process
  checkpoint,   \* checkpoints.value of 'players:last_index' (None: no row)
  players,      \* players: the page_title of every committed row
  team_stints,  \* team_stints: the committed rows, in id order
  cache,        \* the cache directory: key -> file contents (None: no file)
  \* ---- the sqlite3 connection
  pending,      \* the rows of the open, uncommitted transaction
  \* ---- run(conn, mw, cfg) of the players stage
  pc,           \* "off", "discover", "await_index", "resume", "loop",
                \* "await_page", "interpret", "commit", "checkpoint",
                \* "done", "aborted", "careers_commit", "closing"
  titles,       \* the work list
  start_index,
  i,            \* the loop variable
  html,         \* the content of the current item
  \* ---- history
  run,          \* how many times the process was started
  readAtStart,  \* the checkpoint value each run found, in order
  visited,      \* the indices this run entered the loop body with
  fetched,      \* the indices this run called the fetch client for
  wrote,        \* the indices this run executed storage writes for
  written,      \* the values this run wrote to the checkpoint
  skippedEver,  \* the indices any run skipped after a non-rate-limit failure
  lastEvent     \* how the last item that was handled ended, and its index

storeVars == <<checkpoint, players, team_stints, cache>>
stageVars == <<pending, pc, titles, start_index, i, html>>
historyVars == <<run, readAtStart, visited, fetched, wrote, written,
                 skippedEver, lastEvent>>

VARIABLES
  \* ---- data/cache.py on texts, character by character
  files,        \* the cache directory: file name -> the characters stored in
                \* the file (None: no such file)
  putLog,       \* history: key -> the text of the last cache_set (None: none)
  got           \* history: the key and the result of the last cache_get
                \* since the last cache_set (None: none)

VARIABLES
  \* ---- what the process is started with
  max_players,  \* cfg["max_players"]
  max_retries   \* MediaWikiClient.max_retries

VARIABLES
  \* ---- stages/careers.py
  player_careers, \* player_careers: the committed rows
  pendingCareers, \* the table as the open transaction of run() has rebuilt
                  \* it (None: no such transaction)
  today,          \* _utc_today_iso() at the last aggregation, in days
  \* ---- run_etl.main
  exit_code,      \* "none" before the first run, "running", then "0", "1"
                  \* (an uncaught exception) or "killed"
  stageEnd,       \* how run() of the players stage ended in this run: "none",
                  \* "done", "aborted" (returned after RateLimited), "raised"
  careersRan      \* history: the careers stage has committed in this run

textVars == <<files, putLog, got>>
configVars == <<max_players, max_retries>>
careerVars == <<player_careers, pendingCareers, today>>
procVars == <<exit_code, stageEnd, careersRan>>
vars == <<limiterVars, clientVars, storeVars, stageVars, historyVars,
          textVars, configVars, careerVars, procVars>>

\* ------------------------------------------------------- HourlyRateLimiter
\* the clock moves on by d ticks
Advance(ts, d) == [k \in DOMAIN ts |-> Min(ts[k] + d, window_seconds)]

\* the admissions that still lie in the trailing window
InWindow(ts) == SelectSeq(ts, LAMBDA a : a < window_seconds)

\* while self.timestamps and now - self.timestamps[0] >= self.window_seconds:
\*     self.timestamps.popleft()
RECURSIVE DropOld(_)
DropOld(ts) ==
  IF ts # <<>> /\ Head(ts) >= window_seconds
  THEN DropOld(Tail(ts))
  ELSE ts

\* len(self.timestamps) < self.max_requests
HasSlot(ts) == Len(ts) < max_requests

\* the sleep without the remainder of the window
SleepForJitterOnly(ts, jitter) == Max(MinSleep, jitter)

\* sleep_for = max(1.0, window_seconds - (now - timestamps[0]) + jitter)
SleepFor(ts, jitter) ==
  Max(MinSleep, window_seconds - Head(ts) + jitter)

\* The whole of wait_for_slot(): the immediate branch records `now`; the
\* other branch sleeps (time.sleep returns no earlier than asked), reads the
\* clock again, drops the expired timestamps and records.
wait_for_slot ==
  LET kept == DropOld(timestamps) IN
  /\ slots' = slots + 1
  /\ IF HasSlot(kept)
     THEN /\ timestamps' = Append(kept, 0)
          /\ admitted' = Append(admitted, 0)
          /\ lastBranch' = "immediate"
     ELSE \E jitter \in JitterMin..JitterMax, over \in 0..MaxElapse :
            LET slept == SleepFor(kept, jitter) + over IN
            /\ timestamps' = Append(DropOld(Advance(kept, slept)), 0)
            /\ admitted' = Append(InWindow(Advance(admitted, slept)), 0)
            /\ lastBranch' = "slept"

\* Time passes: between two calls, or in one of the client's sleeps
\* (_sleep_polite, time.sleep).  Every such sleep lasts at least the throttle
\* of 0.5 s, one tick; how long it lasts beyond that is left open, since the
\* limiter only sees ages up to window_seconds.
Elapse ==
  \E d \in 1..MaxElapse :
    /\ timestamps' = Advance(timestamps, d)
    /\ admitted' = InWindow(Advance(admitted, d))
    /\ lastBranch' = lastBranch

LimiterInit ==
  /\ timestamps = <<>>
  /\ admitted = <<>>
  /\ lastBranch = "none"

\* ---------------------------------------------------------- MediaWikiClient
\* What session.get can come back with.  status: r.status_code; marker:
\* "Rate Limited - Liquipedia" in r.text; content: what the body holds
\*   "nonjson"  Content-Type is not application/json
\*   "error"    a JSON payload with an "error" member
\*   "empty"    a JSON payload without parse text / an empty document
\*   "good"     a page the interpreter reads
\*   "bad"      a page the interpreter fails on
Statuses == {200, 404, 429, 503}
Contents == {"nonjson", "error", "empty", "good", "bad"}
\* session.get raised instead of returning (timeout, connection error)
Transport == [status |-> 0, marker |-> FALSE, content |-> "exception"]
NoResp == [status |-> 0, marker |-> FALSE, content |-> "none"]
ApiResponses ==
  [status : Statuses, marker : BOOLEAN, content : Contents] \cup {Transport}
\* a raw document that carries the marker is not empty
HtmlResponses ==
  {r \in [status : Statuses, marker : BOOLEAN, content : {"empty", "good"}] :
     r.marker => r.content # "empty"} \cup {Transport}

\* a test that looks at the status only
IsRateLimitedStatusOnly(r) == r.status = 429

\* (r.status_code == 429) or ("Rate Limited - Liquipedia" in body)
IsRateLimited(r) == r.status = 429 \/ r.marker
\* 500 <= r.status_code < 600
IsServerError(r) == 500 <= r.status /\ r.status < 600
\* r.raise_for_status() raises HTTPError
RaisesForStatus(r) == 400 <= r.status /\ r.status < 600
\* a backoff that is halved
MulHalf(b) == b \div 2

\* backoff * 1.6
Mul16(b) == (b * 8) \div 5
\* a loop that goes round once more
LoopOneMore(a) == a <= max_retries

\* for attempt in range(1, self.max_retries + 1): is there another round
LoopContinues(a) == a < max_retries

\* entry of _request / fetch_full_html: the locals before the loop
CallStart(kind) ==
  /\ callKind' = kind
  /\ attempt' = 1
  /\ backoff' = BackoffBase
  /\ lastWait' = 0
  /\ prevBackoff' = 0
  /\ lastResp' = NoResp
  /\ callBody' = "none"
  /\ slots' = 0
  /\ nets' = 0
  /\ IF max_retries >= 1
     THEN cpc' = "slot" /\ callResult' = "none"
     ELSE cpc' = "returned" /\ callResult' = "RuntimeError"

\* `continue`, or the end of the except clause: the next round of the loop,
\* or the raise RuntimeError(...) behind the loop
NextRound ==
  /\ callBody' = "none"
  /\ IF LoopContinues(attempt)
     THEN /\ attempt' = attempt + 1
          /\ cpc' = "slot"
          /\ callResult' = "none"
     ELSE /\ attempt' = attempt
          /\ cpc' = "returned"
          /\ callResult' = "RuntimeError"

\* raise RateLimited(...) / except RateLimited: raise
RaiseRateLimited ==
  /\ callResult' = "RateLimited"
  /\ callBody' = "none"
  /\ cpc' = "returned"
  /\ UNCHANGED <<attempt, backoff, lastWait, prevBackoff>>
  /\ UNCHANGED limiterVars

\* a round that asks the limiter on the first attempt only
AcquireSlotFirstOnly ==
  /\ cpc = "slot"
  /\ IF attempt = 1
     THEN wait_for_slot
     ELSE UNCHANGED <<limiterVars, slots>>
  /\ cpc' = "get"
  /\ UNCHANGED <<callKind, attempt, backoff, lastWait, prevBackoff, lastResp,
                 callResult, callBody, nets>>

\* self.limiter.wait_for_slot() at the top of a round
AcquireSlot ==
  /\ cpc = "slot"
  /\ wait_for_slot
  /\ cpc' = "get"
  /\ UNCHANGED <<callKind, attempt, backoff, lastWait, prevBackoff, lastResp,
                 callResult, callBody, nets>>

\* _request: session.get and the rest of the round
RequestGet ==
  /\ cpc = "get"
  /\ callKind = "_request"
  /\ \E r \in ApiResponses :
       /\ lastResp' = r
       /\ nets' = nets + 1
       /\ UNCHANGED <<callKind, slots>>
       /\ IF r = Transport
          THEN \* except Exception
               /\ lastWait' = Min(Max(backoff, WaitFloor), WaitCeil)
               /\ backoff' = Min(Mul16(backoff), BackoffCapExc)
               /\ prevBackoff' = backoff
               /\ Elapse
               /\ NextRound
          ELSE IF IsRateLimited(r)
          THEN RaiseRateLimited
          ELSE IF IsServerError(r)
          THEN /\ lastWait' = Min(Max(backoff, WaitFloor), WaitCeil)
               /\ backoff' = Min(Mul16(backoff), BackoffCapServer)
               /\ prevBackoff' = backoff
               /\ Elapse
               /\ NextRound
          ELSE IF \/ RaisesForStatus(r)
                  \/ r.content = "nonjson"
                  \/ r.content = "error"
          THEN \* HTTPError / RuntimeError, caught by except Exception
               /\ lastWait' = Min(Max(backoff, WaitFloor), WaitCeil)
               /\ backoff' = Min(Mul16(backoff), BackoffCapExc)
               /\ prevBackoff' = backoff
               /\ Elapse
               /\ NextRound
          ELSE \* self._sleep_polite(); return payload
               /\ Elapse
               /\ callResult' = "ok"
               /\ callBody' = r.content
               /\ cpc' = "returned"
               /\ UNCHANGED <<attempt, backoff, lastWait, prevBackoff>>

\* fetch_full_html: session.get and the rest of the round
FullHtmlGet ==
  /\ cpc = "get"
  /\ callKind = "fetch_full_html"
  /\ \E r \in HtmlResponses :
       /\ lastResp' = r
       /\ nets' = nets + 1
       /\ UNCHANGED <<callKind, slots>>
       /\ IF r = Transport
          THEN /\ lastWait' = Min(Max(backoff, HtmlExcFloor), HtmlExcCeil)
               /\ backoff' = Min(Mul16(backoff), BackoffCapExc)
               /\ prevBackoff' = backoff
               /\ Elapse
               /\ NextRound
          ELSE IF IsRateLimited(r)
          THEN \* cools down and goes round again
               /\ lastWait' = Min(Max(backoff, HtmlLimitFloor), HtmlLimitCeil)
               /\ backoff' = Min(Mul16(backoff), BackoffCapExc)
               /\ prevBackoff' = backoff
               /\ Elapse
               /\ NextRound
          ELSE IF RaisesForStatus(r)
          THEN /\ lastWait' = Min(Max(backoff, HtmlExcFloor), HtmlExcCeil)
               /\ backoff' = Min(Mul16(backoff), BackoffCapExc)
               /\ prevBackoff' = backoff
               /\ Elapse
               /\ NextRound
          ELSE \* time.sleep(throttle); return body
               /\ Elapse
               /\ callResult' = "ok"
               /\ callBody' = r.content
               /\ cpc' = "returned"
               /\ UNCHANGED <<attempt, backoff, lastWait, prevBackoff>>

\* the caller has taken the result
CallEnd ==
  /\ callKind' = "none"
  /\ cpc' = "idle"
  /\ attempt' = 0
  /\ backoff' = 0
  /\ lastWait' = 0
  /\ prevBackoff' = 0
  /\ lastResp' = NoResp
  /\ callResult' = "none"
  /\ callBody' = "none"
  /\ slots' = 0
  /\ nets' = 0

ClientInit ==
  /\ callKind = "none"
  /\ cpc = "idle"
  /\ attempt = 0
  /\ backoff = 0
  /\ lastWait = 0
  /\ prevBackoff = 0
  /\ lastResp = NoResp
  /\ callResult = "none"
  /\ callBody = "none"
  /\ slots = 0
  /\ nets = 0

\* ------------------------------------------------------------ data/cache.py
\* an absent value (Python None, SQL NULL) is <<>>, a present one <<v>>
None == <<>>
Some(v) == <<v>>

\* f"INDEX::{index_page}" and f"PLAYER::{title}"
IndexKey == <<"INDEX", "Portal:Players">>
PlayerKey(title) == <<"PLAYER", title>>

\* a lookup that never finds the file
cache_miss(key) == "none"

\* cache_get: the file's text, or None when there is no file ("none")
cache_get(key) == cache[key]
\* a test that takes the empty string for a document
TruthyIfPresent(text) == text # "none"

\* `if html:` - None and the empty string are both false
Truthy(text) == text # "none" /\ text # "empty"

\* The same two functions on texts.  A text is a sequence of characters, of
\* which only the line ends matter: "CR" is \r, "LF" is \n, "x" any other.
Chars == {"x", "CR", "LF"}
Texts == UNION {[1..n -> Chars] : n \in 0..MaxTextLen}
CacheKeys == {"INDEX::Portal:Players", "PLAYER::A"}

\* _key: hashlib.sha1(s.encode("utf-8")).hexdigest(); one digest per key
_key(k) == <<"sha1", k>>
\* os.path.join(cache_dir, _key(key) + ".html")
PathOf(k) == <<_key(k), ".html">>

\* os.linesep
Linesep == <<"LF">>

\* open(path, "w", encoding="utf-8").write(value): text mode writes each \n
\* as os.linesep and every other character as it is
RECURSIVE WriteText(_)
WriteText(v) ==
  IF v = <<>> THEN <<>>
  ELSE (IF Head(v) = "LF" THEN Linesep ELSE <<Head(v)>>) \o WriteText(Tail(v))

\* open(path, "r", encoding="utf-8").read(): text mode with newline=None
\* gives \r\n and a lone \r back as \n
RECURSIVE ReadText(_)
ReadText(b) ==
  IF b = <<>> THEN <<>>
  ELSE IF Head(b) = "CR"
  THEN IF Len(b) >= 2 /\ b[2] = "LF"
       THEN <<"LF">> \o ReadText(SubSeq(b, 3, Len(b)))
       ELSE <<"LF">> \o ReadText(Tail(b))
  ELSE <<Head(b)>> \o ReadText(Tail(b))

\* cache_set(cache_dir, key, value)
CacheSet ==
  \E k \in CacheKeys, v \in Texts :
    /\ files' = [files EXCEPT ![PathOf(k)] = Some(WriteText(v))]
    /\ putLog' = [putLog EXCEPT ![k] = Some(v)]
    /\ got' = None

\* cache_get(cache_dir, key): None without a file, else its text
CacheGet ==
  \E k \in CacheKeys :
    /\ got' = Some([key |-> k,
                    value |-> IF files[PathOf(k)] = None
                              THEN None
                              ELSE Some(ReadText(files[PathOf(k)][1]))])
    /\ UNCHANGED <<files, putLog>>

TextInit ==
  /\ files = [f \in {PathOf(k) : k \in CacheKeys} |-> None]
  /\ putLog = [k \in CacheKeys |-> None]
  /\ got = None

\* ------------------------------------------------- data/discover_players.py
\* every player the index page links to, sorted
AllTitles == <<"A", "B", "C">>
\* cfg.setdefault("max_players", 0), or the number the configuration gives
ConfigMaxPlayers == {0, 2}

\* discover_player_titles_from_html: sorted(titles)
Discovered(index_html) == IF index_html = "good" THEN AllTitles ELSE <<>>
\* a work list that is never cut
Untruncated(ts) == ts

\* if max_players > 0: titles = titles[:max_players]
Truncated(ts) ==
  IF max_players > 0 THEN SubSeq(ts, 1, Min(max_players, Len(ts))) ELSE ts

\* --------------------------------------------------- data/scrape_player.py
\* parse_player_page: the stints of the infobox History block; note is
\* always None, left is None for an ongoing stint
\* a row is kept when it has a team and a joined date or the word "present":
\* A's page has a closed and an ongoing stint, B's a closed stint and a row
\* "Present" without dates, C's only a row without dates
ParseStints(text, title) ==
  IF title = "A"
  THEN << [player_title |-> title, team |-> "SKT", joined |-> Some(1),
           left |-> Some(2), note |-> None],
          [player_title |-> title, team |-> "T1", joined |-> Some(2),
           left |-> None, note |-> None] >>
  ELSE IF title = "B"
  THEN << [player_title |-> title, team |-> "SKT", joined |-> Some(1),
           left |-> Some(2), note |-> None],
          [player_title |-> title, team |-> "T1", joined |-> None,
           left |-> None, note |-> None] >>
  ELSE << [player_title |-> title, team |-> "T1", joined |-> None,
           left |-> None, note |-> None] >>
\* the interpreter raises on this content
ParseFails(text) == text = "bad"

\* -------------------------------------------------------------- data/db.py
\* UNIQUE(player_title, team, joined, left, note): two rows collide when
\* they agree on the five columns and none of them is NULL (SQLite counts
\* every NULL as distinct from every other value in a UNIQUE constraint)
Collides(a, b) ==
  /\ a.player_title = b.player_title
  /\ a.team = b.team
  /\ a.joined = b.joined /\ a.joined # None
  /\ a.left = b.left /\ a.left # None
  /\ a.note = b.note /\ a.note # None

\* INSERT OR IGNORE INTO team_stints(...)
InsertOrIgnore(rows, row) ==
  IF \E k \in DOMAIN rows : Collides(rows[k], row)
  THEN rows
  ELSE Append(rows, row)

\* for s in stints: conn.execute(INSERT OR IGNORE ...)
RECURSIVE InsertAll(_, _)
InsertAll(rows, new) ==
  IF new = <<>> THEN rows
  ELSE InsertAll(InsertOrIgnore(rows, Head(new)), Tail(new))

NoPending == [players |-> {}, stints |-> <<>>]

\* a resume that ignores the stored cursor
StartFromZero(c) == 0

\* int(get_checkpoint(conn, done_key) or "0")
StartIndex(c) == IF c = None THEN 0 ELSE c[1]
\* an abort that moves the cursor on, and one that starts over
AbortAdvances(k) == k + 1
AbortRestarts(k) == 0

\* set_checkpoint(conn, done_key, str(i))  # retry same player next run
AbortTarget(k) == k
\* a skip that leaves the cursor on the failed item
SkipStays(k) == k

\* a skip that sends the cursor back to the start
SkipRestarts(k) == 0

\* set_checkpoint(conn, done_key, str(i + 1))
SkipTarget(k) == k + 1

\* set_checkpoint: the upsert and conn.commit(), which commits whatever the
\* connection's transaction holds
set_checkpoint(v) ==
  /\ checkpoint' = Some(v)
  /\ players' = players \cup pending.players
  /\ team_stints' = team_stints \o pending.stints
  /\ pending' = NoPending
  /\ written' = written \cup {v}

\* the process is gone: the connection's open transaction is rolled back
ProcessEnds ==
  /\ pc' = "off"
  /\ pending' = NoPending
  /\ titles' = <<>>
  /\ start_index' = 0
  /\ i' = 0
  /\ html' = "none"

\* ------------------------------------------------------------- run_etl.py
\* main(): a new connection, a new MediaWikiClient with its own limiter
StartRun ==
  /\ pc = "off"
  /\ run < MaxRuns
  /\ run' = run + 1
  /\ readAtStart' = Append(readAtStart, checkpoint)
  /\ timestamps' = <<>>
  /\ admitted' = <<>>
  /\ lastBranch' = "none"
  /\ pc' = "discover"
  /\ visited' = {}
  /\ fetched' = {}
  /\ wrote' = {}
  /\ written' = {}
  /\ UNCHANGED <<pending, titles, start_index, i, html>>
  /\ UNCHANGED <<skippedEver, lastEvent>>
  /\ UNCHANGED <<clientVars, storeVars>>
  /\ exit_code' = "running"
  /\ stageEnd' = "none"
  /\ careersRan' = FALSE
  /\ UNCHANGED <<textVars, configVars, careerVars>>

\* ------------------------------------------------------- stages/players.py
\* _fetch_index_html up to the call of mw.fetch_full_html
Discover ==
  /\ pc = "discover"
  /\ IF Truthy(cache_get(IndexKey))
     THEN /\ titles' = Truncated(Discovered(cache_get(IndexKey)))
          /\ pc' = "resume"
          /\ UNCHANGED clientVars
     ELSE /\ CallStart("fetch_full_html")
          /\ pc' = "await_index"
          /\ titles' = titles
  /\ UNCHANGED <<pending, start_index, i, html>>
  /\ UNCHANGED <<limiterVars, storeVars, historyVars>>
  /\ UNCHANGED <<textVars, configVars, careerVars, procVars>>

\* a failed discovery that run() takes for an empty work list
DiscoveryFailsQuietly ==
  /\ pc' = "done"
  /\ stageEnd' = "done"
  /\ exit_code' = exit_code
  /\ cache' = cache
  /\ UNCHANGED <<pending, titles, start_index, i, html>>

\* the RuntimeError of mw.fetch_full_html leaves _fetch_index_html, run()
\* and main(): nothing is written, the process ends with a traceback
DiscoveryFails ==
  /\ ProcessEnds
  /\ cache' = cache
  /\ exit_code' = "1"
  /\ stageEnd' = "raised"

\* mw.fetch_full_html returned or raised: cache_set and discovery, or the
\* RuntimeError leaves run() and main()
AwaitIndex ==
  /\ pc = "await_index"
  /\ cpc = "returned"
  /\ CallEnd
  /\ IF callResult = "ok"
     THEN /\ cache' = [cache EXCEPT ![IndexKey] = callBody]
          /\ titles' = Truncated(Discovered(callBody))
          /\ pc' = "resume"
          /\ UNCHANGED <<pending, start_index, i, html>>
          /\ UNCHANGED <<exit_code, stageEnd>>
     ELSE DiscoveryFails
  /\ UNCHANGED <<checkpoint, players, team_stints>>
  /\ UNCHANGED <<limiterVars, historyVars>>
  /\ UNCHANGED <<textVars, configVars, careerVars, careersRan>>

\* start_index = int(get_checkpoint(conn, done_key) or "0")
Resume ==
  /\ pc = "resume"
  /\ start_index' = StartIndex(checkpoint)
  /\ i' = StartIndex(checkpoint)
  /\ pc' = "loop"
  /\ UNCHANGED <<pending, titles, html>>
  /\ UNCHANGED <<limiterVars, clientVars, storeVars, historyVars>>
  /\ UNCHANGED <<textVars, configVars, careerVars, procVars>>

\* the loop body up to the call of mw.fetch_html: _fetch_player_overview_html
\* looks in the cache first
ItemStart ==
  /\ pc = "loop"
  /\ i < Len(titles)
  /\ visited' = visited \cup {i}
  /\ LET text == cache_get(PlayerKey(titles[i + 1])) IN
     IF Truthy(text)
     THEN /\ html' = text
          /\ pc' = "interpret"
          /\ fetched' = fetched
          /\ UNCHANGED clientVars
     ELSE /\ CallStart("_request")
          /\ fetched' = fetched \cup {i}
          /\ pc' = "await_page"
          /\ html' = "none"
  /\ UNCHANGED <<pending, titles, start_index, i>>
  /\ UNCHANGED <<run, readAtStart, wrote, written, skippedEver, lastEvent>>
  /\ UNCHANGED <<limiterVars, storeVars>>
  /\ UNCHANGED <<textVars, configVars, careerVars, procVars>>

\* a rate limit that leaves run() and main() as an exception
AbortRaises ==
  /\ set_checkpoint(AbortTarget(i))
  /\ pc' = "off"
  /\ stageEnd' = "raised"
  /\ exit_code' = "1"
  /\ lastEvent' = [kind |-> "aborted", index |-> i]
  /\ UNCHANGED <<cache, titles, start_index, i, html, skippedEver>>

\* except RateLimited: set_checkpoint(conn, done_key, str(i)); return
Abort ==
  /\ set_checkpoint(AbortTarget(i))
  /\ pc' = "aborted"
  /\ stageEnd' = "aborted"
  /\ exit_code' = exit_code
  /\ lastEvent' = [kind |-> "aborted", index |-> i]
  /\ UNCHANGED <<cache, titles, start_index, i, html, skippedEver>>

\* except Exception: set_checkpoint(conn, done_key, str(i + 1)); continue
Skip ==
  /\ set_checkpoint(SkipTarget(i))
  /\ i' = i + 1
  /\ pc' = "loop"
  /\ html' = "none"
  /\ skippedEver' = skippedEver \cup {i}
  /\ lastEvent' = [kind |-> "skipped", index |-> i]
  /\ UNCHANGED <<cache, titles, start_index>>

\* mw.fetch_html returned or raised.  fetch_html raises RuntimeError on an
\* empty document; otherwise cache_set(cache_dir, key, html)
AwaitPage ==
  /\ pc = "await_page"
  /\ cpc = "returned"
  /\ CallEnd
  /\ IF callResult = "RateLimited"
     THEN Abort
     ELSE IF callResult = "RuntimeError" \/ ~Truthy(callBody)
     THEN /\ Skip
          /\ UNCHANGED <<exit_code, stageEnd>>
     ELSE /\ cache' = [cache EXCEPT ![PlayerKey(titles[i + 1])] = callBody]
          /\ html' = callBody
          /\ pc' = "interpret"
          /\ UNCHANGED <<checkpoint, players, team_stints, pending>>
          /\ UNCHANGED <<titles, start_index, i>>
          /\ UNCHANGED <<written, skippedEver, lastEvent>>
          /\ UNCHANGED <<exit_code, stageEnd>>
  /\ UNCHANGED <<run, readAtStart, visited, fetched, wrote>>
  /\ UNCHANGED limiterVars
  /\ UNCHANGED <<textVars, configVars, careerVars, careersRan>>

\* parse_player_page, then the player upsert and the stint inserts, all in
\* the connection's open transaction
Interpret ==
  /\ pc = "interpret"
  /\ IF ParseFails(html)
     THEN /\ Skip
          /\ wrote' = wrote
     ELSE /\ pending' =
               [players |-> pending.players \cup {titles[i + 1]},
                stints |->
                  LET before == team_stints \o pending.stints
                      after == InsertAll(before,
                                         ParseStints(html, titles[i + 1]))
                  IN pending.stints \o SubSeq(after, Len(before) + 1, Len(after))]
          /\ wrote' = wrote \cup {i}
          /\ pc' = "commit"
          /\ UNCHANGED <<storeVars, titles, start_index, i, html>>
          /\ UNCHANGED <<written, skippedEver, lastEvent>>
  /\ UNCHANGED <<run, readAtStart, visited, fetched>>
  /\ UNCHANGED <<limiterVars, clientVars>>
  /\ UNCHANGED <<textVars, configVars, careerVars, procVars>>

\* a commit that loses the transaction
CommitLost ==
  /\ pc = "commit"
  /\ pending' = NoPending
  /\ pc' = "checkpoint"
  /\ UNCHANGED <<checkpoint, players, team_stints, cache>>
  /\ UNCHANGED <<titles, start_index, i, html>>
  /\ UNCHANGED <<limiterVars, clientVars, historyVars>>
  /\ UNCHANGED <<textVars, configVars, careerVars, procVars>>

\* conn.commit()
Commit ==
  /\ pc = "commit"
  /\ players' = players \cup pending.players
  /\ team_stints' = team_stints \o pending.stints
  /\ pending' = NoPending
  /\ pc' = "checkpoint"
  /\ UNCHANGED <<checkpoint, cache, titles, start_index, i, html>>
  /\ UNCHANGED <<limiterVars, clientVars, historyVars>>
  /\ UNCHANGED <<textVars, configVars, careerVars, procVars>>

\* set_checkpoint(conn, done_key, str(i + 1)) behind the commit
Advancing ==
  /\ pc = "checkpoint"
  /\ set_checkpoint(i + 1)
  /\ i' = i + 1
  /\ pc' = "loop"
  /\ html' = "none"
  /\ lastEvent' = [kind |-> "advanced", index |-> i]
  /\ UNCHANGED <<cache, titles, start_index>>
  /\ UNCHANGED <<run, readAtStart, visited, fetched, wrote, skippedEver>>
  /\ UNCHANGED <<limiterVars, clientVars>>
  /\ UNCHANGED <<textVars, configVars, careerVars, procVars>>

\* the end of the list: print("[players] done.")
StageDone ==
  /\ pc = "loop"
  /\ i >= Len(titles)
  /\ pc' = "done"
  /\ UNCHANGED <<pending, titles, start_index, i, html>>
  /\ UNCHANGED <<limiterVars, clientVars, storeVars, historyVars>>
  /\ stageEnd' = "done"
  /\ UNCHANGED <<textVars, configVars, careerVars, exit_code, careersRan>>

\* ------------------------------------------------------- stages/careers.py
\* WHERE joined IS NOT NULL ... GROUP BY player_title: the rows of one group
Group(rows, p) ==
  {k \in DOMAIN rows : rows[k].player_title = p /\ rows[k].joined # None}

\* an absent end that counts as day 0
CoalesceZero(l, d) == IF l = None THEN 0 ELSE l[1]

\* COALESCE(left, ?)
Coalesce(l, d) == IF l = None THEN d ELSE l[1]

\* a count of the different rows of the group
CountDistinct(rows, g) == Cardinality({rows[k] : k \in g})

\* COUNT(*)
CountAll(rows, g) == Cardinality(g)

\* MIN(...) and MAX(...) of a group
MinOf(S) == CHOOSE x \in S : \A y \in S : x <= y
MaxOf(S) == CHOOSE x \in S : \A y \in S : x >= y

\* INSERT INTO player_careers(...) SELECT ... FROM team_stints
\* WHERE joined IS NOT NULL GROUP BY player_title, with today = d
Aggregate(rows, d) ==
  { LET g == Group(rows, p)
        start == MinOf({rows[k].joined[1] : k \in g})
        end == MaxOf({Coalesce(rows[k].left, d) : k \in g})
    IN [player_title |-> p,
        career_start |-> start,
        career_end |-> end,
        career_days |-> end - start,
        stints_count |-> CountAll(rows, g)]
    : p \in {q \in {rows[k].player_title : k \in DOMAIN rows} :
               Group(rows, q) # {}} }

\* a rebuild that leaves the old rows in the table
RebuiltOverOld(old, new) == old \cup new

\* DELETE FROM player_careers, then the INSERT ... SELECT: the table holds
\* the new rows only
Rebuilt(old, new) == new

\* run(conn) up to conn.commit(): DELETE FROM player_careers, today, and the
\* INSERT ... SELECT, in the connection's open transaction
CareersRebuild ==
  /\ pc \in {"done", "aborted"}
  /\ \E d \in today..MaxToday :
       /\ today' = d
       /\ pendingCareers' =
            Some(Rebuilt(player_careers, Aggregate(team_stints, d)))
  /\ pc' = "careers_commit"
  /\ UNCHANGED <<player_careers, pending, titles, start_index, i, html>>
  /\ UNCHANGED <<limiterVars, clientVars, storeVars, historyVars>>
  /\ UNCHANGED <<textVars, configVars, procVars>>

\* conn.commit() of the careers stage
CareersCommit ==
  /\ pc = "careers_commit"
  /\ player_careers' = pendingCareers[1]
  /\ pendingCareers' = None
  /\ careersRan' = TRUE
  /\ pc' = "closing"
  /\ UNCHANGED <<today, pending, titles, start_index, i, html>>
  /\ UNCHANGED <<limiterVars, clientVars, storeVars, historyVars>>
  /\ UNCHANGED <<textVars, configVars, exit_code, stageEnd>>

\* ------------------------------------------------------------- run_etl.py
\* run_careers has returned: conn.close() and the end of main()
Exit ==
  /\ pc = "closing"
  /\ ProcessEnds
  /\ UNCHANGED <<limiterVars, clientVars, storeVars, historyVars>>
  /\ exit_code' = "0"
  /\ UNCHANGED <<textVars, configVars, careerVars, stageEnd, careersRan>>

\* the process is stopped from outside, at any step
Crash ==
  /\ pc # "off"
  /\ ProcessEnds
  /\ CallEnd
  /\ UNCHANGED <<limiterVars, storeVars, historyVars>>
  /\ pendingCareers' = None
  /\ exit_code' = "killed"
  /\ UNCHANGED <<player_careers, today, stageEnd, careersRan>>
  /\ UNCHANGED <<textVars, configVars>>

\* the client's steps while the stage waits for it
ClientStep ==
  /\ pc \in {"await_index", "await_page"}
  /\ \/ AcquireSlot
     \/ RequestGet
     \/ FullHtmlGet
  /\ UNCHANGED <<storeVars, stageVars, historyVars>>
  /\ UNCHANGED <<textVars, configVars, careerVars, procVars>>

\* everything but the configuration
InitState ==
  /\ LimiterInit
  /\ ClientInit
  /\ checkpoint = None
  /\ players = {}
  /\ team_stints = <<>>
  /\ cache = [k \in {IndexKey} \cup {PlayerKey(AllTitles[n]) : n \in DOMAIN AllTitles}
                |-> "none"]
  /\ pending = NoPending
  /\ pc = "off"
  /\ titles = <<>>
  /\ start_index = 0
  /\ i = 0
  /\ html = "none"
  /\ run = 0
  /\ readAtStart = <<>>
  /\ visited = {}
  /\ fetched = {}
  /\ wrote = {}
  /\ written = {}
  /\ skippedEver = {}
  /\ lastEvent = [kind |-> "none", index |-> 0]
  /\ TextInit
  /\ player_careers = {}
  /\ pendingCareers = None
  /\ today = MaxToday - 1
  /\ exit_code = "none"
  /\ stageEnd = "none"
  /\ careersRan = FALSE

\* run_etl.main: load_config, MediaWikiClient(...)
Init ==
  /\ InitState
  /\ max_players \in ConfigMaxPlayers
  /\ max_retries = StageRetries

Next ==
  \/ StartRun
  \/ Discover
  \/ AwaitIndex
  \/ Resume
  \/ ItemStart
  \/ AwaitPage
  \/ Interpret
  \/ Commit
  \/ Advancing
  \/ StageDone
  \/ CareersRebuild
  \/ CareersCommit
  \/ Exit
  \/ Crash
  \/ ClientStep

Spec == Init /\ [][Next]_vars

\* --------------------------------------------- the fetch client on its own
\* Any caller: calls of either shape, one after the other, with or without
\* a pause between them, on one client and its limiter.
ClientCall ==
  /\ pc = "off"
  /\ cpc = "idle"
  /\ \E kind \in {"_request", "fetch_full_html"} : CallStart(kind)
  /\ UNCHANGED <<limiterVars, storeVars, stageVars, historyVars>>
  /\ UNCHANGED <<textVars, configVars, careerVars, procVars>>

FetchStep ==
  /\ pc = "off"
  /\ \/ AcquireSlot
     \/ RequestGet
     \/ FullHtmlGet
  /\ UNCHANGED <<storeVars, stageVars, historyVars>>
  /\ UNCHANGED <<textVars, configVars, careerVars, procVars>>

ClientReturn ==
  /\ pc = "off"
  /\ cpc = "returned"
  /\ CallEnd
  /\ UNCHANGED <<limiterVars, storeVars, stageVars, historyVars>>
  /\ UNCHANGED <<textVars, configVars, careerVars, procVars>>

Pause ==
  /\ pc = "off"
  /\ cpc = "idle"
  /\ Elapse
  /\ UNCHANGED <<clientVars, storeVars, stageVars, historyVars>>
  /\ UNCHANGED <<textVars, configVars, careerVars, procVars>>

NextFetch ==
  \/ ClientCall
  \/ FetchStep
  \/ ClientReturn
  \/ Pause

\* a client built with the default budget
InitFetch ==
  /\ InitState
  /\ max_players = 0
  /\ max_retries = DefaultRetries

SpecFetch == InitFetch /\ [][NextFetch]_vars

\* ------------------------------------------------- the cache on its own
\* Any caller: cache_set and cache_get in any order, on any key and text.
CachePut ==
  /\ pc = "off"
  /\ CacheSet
  /\ UNCHANGED <<limiterVars, clientVars, storeVars, stageVars, historyVars>>
  /\ UNCHANGED <<configVars, careerVars, procVars>>

CacheRead ==
  /\ pc = "off"
  /\ CacheGet
  /\ UNCHANGED <<limiterVars, clientVars, storeVars, stageVars, historyVars>>
  /\ UNCHANGED <<configVars, careerVars, procVars>>

NextCache ==
  \/ CachePut
  \/ CacheRead

SpecCache == Init /\ [][NextCache]_vars

\* ================================================================ properties
\* the value a checkpoint cell stands for (an absent row reads as 0)
CursorOf(c) == IF c = None THEN 0 ELSE c[1]

\* item j of the discovered list has its player row and its stint rows in
\* the committed tables
ItemStored(j) ==
  /\ AllTitles[j + 1] \in players
  /\ \A n \in DOMAIN ParseStints("good", AllTitles[j + 1]) :
       \E k \in DOMAIN team_stints :
         team_stints[k] = ParseStints("good", AllTitles[j + 1])[n]

\* C1: whenever a request is admitted, at most max_requests recorded
\* admissions, the new one included, lie within the trailing window of
\* window_seconds; on the immediate branch and on the sleep-then-record
\* branch alike.
C1_WindowBound ==
  Cardinality({k \in DOMAIN admitted : admitted[k] < window_seconds})
    <= max_requests

\* an admission recorded after sleeping that fills the window
C1_Witness ==
  /\ lastBranch = "slept"
  /\ admitted # <<>>
  /\ admitted[Len(admitted)] = 0
  /\ Len(admitted) = max_requests

\* C2: RateLimited during item i leaves the checkpoint at exactly i, ends
\* the stage at once with no index above i visited and nothing written for
\* item i, and the next run starts at i.
C2_RateLimitedKeepsIndex ==
  /\ [][ (/\ pc = "await_page" /\ cpc = "returned"
          /\ callResult = "RateLimited" /\ pc' # "off")
         => (/\ pc' = "aborted"
             /\ checkpoint' = Some(i)
             /\ i' = i
             /\ players' = players
             /\ team_stints' = team_stints
             /\ pending' = NoPending) ]_vars
  /\ [](pc = "aborted"
          => /\ checkpoint = Some(i)
             /\ \A j \in visited : j <= i
             /\ i \notin wrote)
  /\ []((lastEvent.kind = "aborted" /\ pc = "loop" /\ visited = {})
          => /\ start_index = lastEvent.index
             /\ i = lastEvent.index)

\* the run after an abort at item 1 is back at item 1
C2_Witness ==
  /\ run >= 2
  /\ lastEvent = [kind |-> "aborted", index |-> 1]
  /\ pc = "await_page"
  /\ i = 1
  /\ "A" \in players

\* item i has failed with an error other than RateLimited
NonRateLimitFailure ==
  \/ /\ pc = "await_page" /\ cpc = "returned"
     /\ \/ callResult = "RuntimeError"
        \/ callResult = "ok" /\ callBody = "empty"
  \/ pc = "interpret" /\ html = "bad"

\* C3: an error other than RateLimited during item i sets the checkpoint to
\* i+1, writes no row for item i, and the run goes on with item i+1.
C3_FailureSkipsItem ==
  /\ [][ (NonRateLimitFailure /\ pc' # "off")
         => (/\ checkpoint' = Some(i + 1)
             /\ i' = i + 1
             /\ pc' = "loop"
             /\ players' = players
             /\ team_stints' = team_stints
             /\ pending' = NoPending
             /\ i \notin wrote') ]_vars
  /\ []((lastEvent.kind = "skipped" /\ lastEvent.index \in visited
           /\ pc = "loop" /\ i = lastEvent.index + 1)
          => /\ checkpoint = Some(i)
             /\ lastEvent.index \notin wrote)

\* item 0 was skipped and the same run is at work on item 1
C3_Witness ==
  /\ lastEvent = [kind |-> "skipped", index |-> 0]
  /\ visited = {0, 1}
  /\ pc = "interpret"
  /\ checkpoint = Some(1)
  /\ "A" \notin players

\* C4 as stated: the durable checkpoint never points past an item whose
\* rows are not in the committed tables.
C4_NeverPastUnstored ==
  \A j \in 0..(CursorOf(checkpoint) - 1) : ItemStored(j)

\* C4 amended: the checkpoint is advanced past a processed item only behind
\* the commit of its rows; every index below the durable checkpoint is
\* either stored or was skipped after a non-rate-limit failure.
C4_StoredOrSkipped ==
  /\ \A j \in 0..(CursorOf(checkpoint) - 1) :
        ItemStored(j) \/ j \in skippedEver
  /\ pc = "checkpoint" => (pending = NoPending /\ ItemStored(i))

\* the process stopped between the commit of item 1 and its checkpoint
C4_Witness ==
  /\ pc = "off"
  /\ checkpoint = Some(1)
  /\ ItemStored(0)
  /\ ItemStored(1)

\* C5: a run that finds the checkpoint at i fetches and writes nothing for
\* an index below i.
C5_NothingBelowCursor ==
  (run >= 1 /\ readAtStart[run] # None)
    => \A j \in visited \cup fetched \cup wrote : j >= readAtStart[run][1]

\* a run resumed at 1 that has fetched and written
C5_Witness ==
  /\ run >= 2
  /\ readAtStart[run] = Some(1)
  /\ 1 \in fetched
  /\ 1 \in wrote

\* C6: the checkpoint read at the start of a run is never below the one an
\* earlier run read, and no run writes a value below the one it read.
C6_CursorMonotone ==
  /\ \A a, b \in DOMAIN readAtStart :
        a <= b => CursorOf(readAtStart[a]) <= CursorOf(readAtStart[b])
  /\ run >= 1 => \A v \in written : v >= CursorOf(readAtStart[run])

\* two runs with rising cursors, the later one stopped by a rate limit and
\* writing its own index back
C6_Witness ==
  /\ Len(readAtStart) = 2
  /\ readAtStart[1] = None
  /\ readAtStart[2] = Some(1)
  /\ lastEvent = [kind |-> "aborted", index |-> 1]
  /\ written = {1}

\* C7: no two stored team_stints rows carry the same (player, team, joined,
\* left, note), however often an item is processed.
C7_StintsIdempotent ==
  \A k, l \in DOMAIN team_stints :
    k # l => team_stints[k] # team_stints[l]

\* C8: in both call shapes a response with status 429 or with the marker
\* ends the call at once with RateLimited.
C8_RateLimitNotRetried ==
  [][ (/\ cpc = "get" /\ nets' = nets + 1
       /\ (lastResp'.status = 429 \/ lastResp'.marker))
      => (cpc' = "returned" /\ callResult' = "RateLimited") ]_vars

\* C9: every session.get is preceded by its own wait_for_slot: before a
\* request goes out the limiter has recorded one timestamp more than there
\* were requests, and otherwise as many.
C9_SlotBeforeRequest ==
  /\ nets <= slots
  /\ cpc = "get" => slots = nets + 1
  /\ cpc \in {"idle", "slot", "returned"} => slots = nets
  /\ cpc \in {"slot", "get"} => nets = attempt - 1

\* a retried attempt that holds its own slot
C9_Witness ==
  /\ cpc = "get"
  /\ attempt = 2
  /\ slots = 2
  /\ nets = 1

\* the last response was a transient failure of the structured call
TransientFailure(r) ==
  \/ r = Transport
  \/ /\ r.status # 429 /\ ~r.marker
     /\ \/ r.status >= 400
        \/ r.content \in {"nonjson", "error"}

\* C10: a structured call whose attempts all fail transiently makes exactly
\* max_retries requests and raises; no call makes more; a payload comes
\* only from a successful attempt.
C10_RetryBudget ==
  /\ nets <= max_retries
  /\ (callKind = "_request" /\ cpc \in {"slot", "get"} /\ nets >= 1)
       => TransientFailure(lastResp)
  /\ (callKind = "_request" /\ cpc = "returned" /\ TransientFailure(lastResp))
       => (callResult = "RuntimeError" /\ nets = max_retries)
  /\ (callKind = "_request" /\ callResult = "RuntimeError")
       => (nets = max_retries /\ TransientFailure(lastResp))
  /\ (callKind = "_request" /\ callResult = "ok")
       => /\ lastResp.status = 200
          /\ ~lastResp.marker
          /\ lastResp.content \notin {"nonjson", "error", "exception"}
          /\ callBody = lastResp.content

\* the budget is used up and the call has raised
C10_Witness ==
  /\ callKind = "_request"
  /\ cpc = "returned"
  /\ callResult = "RuntimeError"
  /\ nets = max_retries
  /\ max_retries >= 2

\* C11: cache_get after cache_set of the same key, with no write to the key
\* in between, returns exactly the text that was set.
C11_RoundTrip ==
  (got # None /\ putLog[got[1].key] # None)
    => got[1].value = putLog[got[1].key]

\* C12: a key that has an entry in the cache keeps its payload for ever: no
\* step of any run writes or removes it.
C12_WriteOnce ==
  [][\A k \in DOMAIN cache : cache[k] # "none" => cache'[k] = cache[k]]_vars

\* the key of the item the loop is at
ItemKey == PlayerKey(titles[i + 1])
\* the step that obtains the content of item i
ItemStep == pc = "loop" /\ pc' \in {"interpret", "await_page"}

\* C13: for an item whose key has a cache entry the cached text is taken and
\* neither a limiter slot nor a network request is spent on it; for an item
\* without an entry the fetch client is called, and when it succeeds the
\* cache holds the fetched text under the key before interpretation begins.
C13_CacheFirst ==
  /\ [](pc = "await_page" => cache[ItemKey] = "none")
  /\ [](pc = "interpret" => cache[ItemKey] = html)
  /\ [][ /\ (ItemStep /\ cache[ItemKey] # "none")
              => /\ pc' = "interpret"
                 /\ html' = cache[ItemKey]
                 /\ UNCHANGED <<limiterVars, clientVars>>
         /\ (ItemStep /\ cache[ItemKey] = "none")
              => /\ pc' = "await_page"
                 /\ cpc' # "idle"
                 /\ callKind' = "_request"
         /\ (pc \notin {"await_index", "await_page"})
              => /\ slots' = slots
                 /\ nets' = nets
         /\ (pc = "await_page" /\ pc' = "interpret")
              => /\ callResult = "ok"
                 /\ cache'[ItemKey] = callBody
                 /\ html' = callBody ]_vars

\* an item of a later run is interpreted from the cache, nothing fetched
C13_Witness ==
  /\ pc = "interpret"
  /\ run >= 2
  /\ i \notin fetched
  /\ cache[ItemKey] = html

\* the titles the configuration lets the stage work on, and their indices
Allowed ==
  IF max_players > 0
  THEN {AllTitles[n] : n \in 1..Min(max_players, Len(AllTitles))}
  ELSE {AllTitles[n] : n \in 1..Len(AllTitles)}
AllowedCount == Cardinality(Allowed)
\* run 1 was stopped by a hard rate limit on B after A was handled
RateLimitOnB ==
  /\ max_players = 2
  /\ run = 1
  /\ lastEvent = [kind |-> "aborted", index |-> 1]
  /\ 0 \notin skippedEver

\* C14: with max_players = m > 0 the work list is the first m discovered
\* titles and nothing beyond position m is fetched, stored or counted by the
\* checkpoint; with max_players = 0 the list is whole.  For [A, B, C], m = 2
\* and a hard rate limit on B, the run ends with checkpoint 1, A stored and
\* neither B nor C stored.
C14_MaxPlayers ==
  /\ titles # <<>> =>
       /\ Len(titles) = AllowedCount
       /\ \A n \in 1..Len(titles) : titles[n] = AllTitles[n]
  /\ CursorOf(checkpoint) <= AllowedCount
  /\ players \subseteq Allowed
  /\ \A n \in visited \cup fetched \cup wrote : n < AllowedCount
  /\ \A n \in DOMAIN AllTitles :
       AllTitles[n] \notin Allowed => cache[PlayerKey(AllTitles[n])] = "none"
  /\ \A k \in DOMAIN team_stints : team_stints[k].player_title \in Allowed
  /\ RateLimitOnB =>
       /\ checkpoint = Some(1)
       /\ "A" \in players
       /\ "B" \notin players
       /\ "C" \notin players

C14_Witness ==
  /\ RateLimitOnB
  /\ pc = "aborted"
  /\ titles = <<"A", "B">>

\* the stored history rows of player p, and those with a joined date
RowsOf(p) == {k \in DOMAIN team_stints : team_stints[k].player_title = p}
DatedRowsOf(p) == {k \in RowsOf(p) : team_stints[k].joined # None}
\* the end of a stint, an absent end counting as today
EndOf(k) ==
  IF team_stints[k].left = None THEN today ELSE team_stints[k].left[1]
\* the aggregation has just been committed
Aggregated == pc = "closing"
\* the stored stints of p are day 1 to day 2 and day 2 to ongoing
HasExampleStints(p) ==
  /\ Cardinality(RowsOf(p)) = 2
  /\ \E k \in RowsOf(p) :
       team_stints[k].joined = Some(1) /\ team_stints[k].left = Some(2)
  /\ \E k \in RowsOf(p) :
       team_stints[k].joined = Some(2) /\ team_stints[k].left = None
ExampleCareer(c) ==
  HasExampleStints(c.player_title)
    => (c.career_start = 1 /\ c.career_end = today /\ c.stints_count = 2)

\* C15: after an aggregation run every career row has the earliest joined
\* date of the player's stored stints as career_start and their latest end,
\* an absent end counting as today, as career_end; the player with stints
\* day 1 to day 2 and day 2 to ongoing gets start 1, end today and count 2.
C15_CareerSpan ==
  Aggregated =>
    \A c \in player_careers :
      /\ DatedRowsOf(c.player_title) # {}
      /\ c.career_start =
           MinOf({team_stints[k].joined[1] : k \in DatedRowsOf(c.player_title)})
      /\ c.career_end = MaxOf({EndOf(k) : k \in RowsOf(c.player_title)})
      /\ ExampleCareer(c)

\* C15, amended: the same with the latest end taken over the player's stored
\* stints that have a joined date.
C15_CareerSpanDated ==
  Aggregated =>
    \A c \in player_careers :
      /\ DatedRowsOf(c.player_title) # {}
      /\ c.career_start =
           MinOf({team_stints[k].joined[1] : k \in DatedRowsOf(c.player_title)})
      /\ c.career_end = MaxOf({EndOf(k) : k \in DatedRowsOf(c.player_title)})
      /\ c.career_days = c.career_end - c.career_start
      /\ ExampleCareer(c)

\* the example player and a player with an undated ongoing row, aggregated
C15_Witness ==
  /\ Aggregated
  /\ HasExampleStints("A")
  /\ \E c \in player_careers : c.player_title = "A" /\ c.career_end = today
  /\ \E c \in player_careers : c.player_title = "B" /\ c.career_end < today

\* the career rows of player p
CareersOf(p) == {c \in player_careers : c.player_title = p}

\* C16: after an aggregation run every player with a stored history row has
\* a career row whose stints_count is the number of the player's stored rows.
C16_EveryPlayerCounted ==
  Aggregated =>
    \A p \in {team_stints[k].player_title : k \in DOMAIN team_stints} :
      \E c \in CareersOf(p) : c.stints_count = Cardinality(RowsOf(p))

\* C16, amended: after an aggregation run exactly the players with a stored
\* row that has a joined date have a career row, one each, and its
\* stints_count is the number of the player's stored rows with a joined date.
C16_DatedPlayersCounted ==
  Aggregated =>
    /\ \A p \in {team_stints[k].player_title : k \in DOMAIN team_stints} :
         IF DatedRowsOf(p) = {}
         THEN CareersOf(p) = {}
         ELSE /\ Cardinality(CareersOf(p)) = 1
              /\ \A c \in CareersOf(p) :
                   c.stints_count = Cardinality(DatedRowsOf(p))
    /\ \A c \in player_careers : RowsOf(c.player_title) # {}

\* a player with a dated and an undated row, and a player with no dated row
C16_Witness ==
  /\ Aggregated
  /\ \E c \in CareersOf("B") : c.stints_count = 1
  /\ Cardinality(RowsOf("B")) = 2
  /\ RowsOf("C") # {}
  /\ CareersOf("C") = {}

\* the fetch client hands RateLimited to the stage, and the process lives on
RateLimitedReachesStage ==
  /\ pc = "await_page"
  /\ cpc = "returned"
  /\ callResult = "RateLimited"
  /\ exit_code' # "killed"

\* C17: a hard rate limit makes the players stage return normally with the
\* checkpoint persisted; the careers stage runs next and the process ends
\* with exit code 0 (unless it is stopped from outside).
C17_AbortExitsZero ==
  /\ [](pc = "aborted" =>
          /\ stageEnd = "aborted"
          /\ exit_code = "running"
          /\ checkpoint = Some(i)
          /\ pending = NoPending)
  /\ []((pc = "off" /\ stageEnd = "aborted" /\ exit_code # "killed") =>
          /\ exit_code = "0"
          /\ careersRan)
  /\ [][ /\ RateLimitedReachesStage =>
              /\ pc' = "aborted"
              /\ stageEnd' = "aborted"
              /\ checkpoint' = Some(i)
         /\ (stageEnd = "aborted" /\ pc # "off" /\ exit_code' # "killed") =>
              /\ pc = "aborted" => pc' = "careers_commit"
              /\ pc = "careers_commit" => (pc' = "closing" /\ careersRan')
              /\ pc = "closing" => (pc' = "off" /\ exit_code' = "0") ]_vars

\* a run that was stopped by a rate limit has ended with exit code 0
C17_Witness ==
  /\ pc = "off"
  /\ stageEnd = "aborted"
  /\ lastEvent.kind = "aborted"
  /\ careersRan
  /\ exit_code = "0"

\* C18: only a hard rate limit ends the players stage before the end of the
\* work list: no failure in discovery or in the handling of an item ends the
\* stage or the process with an exception.
C18_OnlyRateLimitStops ==
  /\ exit_code # "1"
  /\ stageEnd \in {"none", "done", "aborted"}
  /\ stageEnd = "aborted" => lastEvent.kind = "aborted"

\* session.get of _request and what follows it in the round
RequestStep == callKind = "_request" /\ cpc = "get" /\ nets' = nets + 1

RequestFailure == RequestStep /\ callResult' \notin {"ok", "RateLimited"}
\* _request is running
InRequest == callKind = "_request" /\ cpc # "idle"

\* C20: in one _request call the backoff starts at 10 s and never decreases
\* from one failed attempt to the next, and the wait before a retry lies
\* between 10 s and 60 s.
C20_BackoffNeverDecreases ==
  /\ []((InRequest /\ nets = 0) => backoff = BackoffBase)
  /\ []((InRequest /\ lastWait # 0) =>
          (WaitFloor <= lastWait /\ lastWait <= WaitCeil))
  /\ []((InRequest /\ prevBackoff # 0) => backoff >= prevBackoff)

\* C20, amended: the backoff starts at 10 s, stays between 10 s and 180 s,
\* and after a failed attempt it is at least what it was before or at least
\* 120 s; the wait before a retry lies between 10 s and 60 s and never
\* decreases.
C20_BackoffBounded ==
  /\ []((InRequest /\ nets = 0) => backoff = BackoffBase)
  /\ []((InRequest /\ lastWait # 0) =>
          (WaitFloor <= lastWait /\ lastWait <= WaitCeil))
  /\ [](InRequest => (BackoffBase <= backoff /\ backoff <= BackoffCapExc))
  /\ []((InRequest /\ prevBackoff # 0) =>
          backoff >= Min(prevBackoff, BackoffCapServer))
  /\ [][RequestFailure =>
          /\ prevBackoff' = backoff
          /\ lastWait' = Min(Max(backoff, WaitFloor), WaitCeil)
          /\ lastWait' >= lastWait ]_vars

\* a 5xx failure has lowered the backoff to 120 s
C20_Witness ==
  /\ InRequest
  /\ lastResp.status = 503
  /\ prevBackoff > BackoffCapServer
  /\ backoff = BackoffCapServer
  /\ lastWait = WaitCeil

\* the process has ended and was not stopped from outside
RunEnded == pc = "off" /\ exit_code \in {"0", "1"}

\* an item this run visited has raised RateLimited
RateLimitedInRun == lastEvent.kind = "aborted" /\ lastEvent.index \in visited

\* C21: every run of the players stage ends in Done or Aborted; it starts at
\* the resume index, visits the indices in rising order, each once; it ends
\* in Done exactly when no visited item raised RateLimited, and a Done run
\* that visited an item leaves the checkpoint at the length of the list.
C21_RunEndsDoneOrAborted ==
  /\ [](RunEnded => stageEnd \in {"done", "aborted"})
  /\ [](RunEnded => (stageEnd = "done" <=> ~RateLimitedInRun))
  /\ []((stageEnd = "done" /\ visited # {}) =>
          checkpoint = Some(Len(titles)) \/ pc = "off")
  /\ [](pc # "off" => \A n \in visited : start_index <= n /\ n <= i)
  /\ [][(pc = "loop" /\ pc' \in {"interpret", "await_page"}) =>
          /\ i \notin visited
          /\ \A n \in visited : n < i
          /\ visited' = visited \cup {i}
          /\ (visited = {} => i = CursorOf(checkpoint)) ]_vars

\* the career rows that the stored stints with a joined date make on `today`
ExpectedCareers ==
  { [player_title |-> p,
     career_start |-> MinOf({team_stints[k].joined[1] : k \in DatedRowsOf(p)}),
     career_end |-> MaxOf({EndOf(k) : k \in DatedRowsOf(p)}),
     career_days |-> MaxOf({EndOf(k) : k \in DatedRowsOf(p)})
                       - MinOf({team_stints[k].joined[1] : k \in DatedRowsOf(p)}),
     stints_count |-> Cardinality(DatedRowsOf(p))]
    : p \in {q \in {team_stints[k].player_title : k \in DOMAIN team_stints} :
               DatedRowsOf(q) # {}} }
\* the careers stage is between its first statement and its commit
InCareers == pc \in {"done", "aborted", "careers_commit"}
\* the commit of the careers stage
CareersCommitStep == pc = "careers_commit" /\ pc' = "closing"

\* C22: the aggregation deletes and re-inserts in one transaction: until its
\* commit, and when it is stopped before it, the committed player_careers
\* rows stay; after it the table holds exactly the rows the stored stints
\* make, none for a player without qualifying stints; and an aggregation
\* that finds the table as the same team_stints and day have made it leaves
\* the same rows.
C22_AtomicRebuild ==
  /\ [](Aggregated => player_careers = ExpectedCareers)
  /\ [](pendingCareers # None => pc = "careers_commit")
  /\ [][ /\ (InCareers /\ ~CareersCommitStep) =>
              player_careers' = player_careers
         /\ (CareersCommitStep /\ player_careers = ExpectedCareers) =>
              player_careers' = player_careers ]_vars

\* the second run has stored nothing and its aggregation, on the day of the
\* first one, is about to commit the rows that the first one left
C22_Witness ==
  /\ run = 2
  /\ pc = "careers_commit"
  /\ wrote = {}
  /\ skippedEver = {}
  /\ player_careers # {}
  /\ player_careers = ExpectedCareers
  /\ pendingCareers = Some(player_careers)

\* the cache keys of the players
PlayerKeys == {PlayerKey(AllTitles[n]) : n \in DOMAIN AllTitles}

\* C23: a fetch of a player's content that ends in RateLimited, in retry
\* exhaustion or in the empty-document error creates and changes no cache
\* entry; every PLAYER:: entry is a non-empty document that a fetch returned;
\* and the item a rate limit stopped has no entry, keeps none until a fetch
\* of it succeeds, and is fetched from the network by the run that reaches
\* it while it has none.
C23_FailedFetchNotCached ==
  /\ [](\A k \in PlayerKeys : cache[k] \in {"none", "good", "bad"})
  /\ [](pc = "aborted" => cache[ItemKey] = "none")
  /\ [][ /\ (pc = "await_page" /\ pc' # "interpret") =>
              \A k \in PlayerKeys : cache'[k] = cache[k]
         /\ \A k \in PlayerKeys :
              cache'[k] # cache[k] =>
                /\ pc = "await_page"
                /\ cpc = "returned"
                /\ callResult = "ok"
                /\ k = ItemKey
                /\ cache[k] = "none"
                /\ cache'[k] = callBody
         /\ (ItemStep /\ lastEvent = [kind |-> "aborted", index |-> i]
               /\ cache[ItemKey] = "none") =>
              /\ pc' = "await_page"
              /\ callKind' = "_request" ]_vars

\* a later run fetches the item again that a rate limit had stopped
C23_Witness ==
  /\ run = 2
  /\ pc = "await_page"
  /\ lastEvent = [kind |-> "aborted", index |-> i]
  /\ nets >= 1
  /\ cache[ItemKey] = "none"

\* run() reads the checkpoint
ResumeStep == pc = "resume" /\ pc' = "loop"

\* C24: an item that was skipped after a non-rate-limit failure is not
\* attempted again: every later run resumes behind it, no run fetches,
\* interprets or stores it again, and its player row stays as it was.
C24_SkippedNeverRetried ==
  /\ [](pc \in {"await_page", "interpret", "commit", "checkpoint"} =>
          i \notin skippedEver)
  /\ [][ /\ ResumeStep => \A j \in skippedEver : start_index' > j
         /\ ItemStep => i \notin skippedEver
         /\ \A j \in skippedEver :
              /\ (AllTitles[j + 1] \in players') = (AllTitles[j + 1] \in players)
              /\ AllTitles[j + 1] \notin pending.players' ]_vars

\* a later run has resumed behind the item an earlier run skipped, and has
\* stored the next one
C24_Witness ==
  /\ run = 2
  /\ 0 \in skippedEver
  /\ start_index = 1
  /\ 1 \in wrote
  /\ "A" \notin players
  /\ "B" \in players

\* run() is in discovery
InDiscovery == pc \in {"discover", "await_index"}
\* mw.fetch_full_html has given up and the process is not stopped from outside
IndexFetchFailed ==
  /\ pc = "await_index"
  /\ cpc = "returned"
  /\ callResult # "ok"
  /\ exit_code' # "killed"

\* C25: a discovery whose index fetch fails within the retry budget changes
\* nothing that persists: checkpoint, players, team_stints and the cache
\* entry of the index stay, no item is processed and the careers stage does
\* not run in that process.
C25_DiscoveryFailureFrame ==
  /\ [](InDiscovery => (visited = {} /\ ~careersRan /\ pending = NoPending))
  /\ [](stageEnd = "raised" =>
          /\ pc = "off"
          /\ exit_code = "1"
          /\ visited = {}
          /\ fetched = {}
          /\ wrote = {}
          /\ written = {}
          /\ ~careersRan)
  /\ [][ /\ (InDiscovery /\ pc' # "resume") =>
              /\ UNCHANGED <<checkpoint, players, team_stints, cache>>
              /\ player_careers' = player_careers
         /\ IndexFetchFailed =>
              /\ stageEnd' = "raised"
              /\ pc' = "off"
              /\ UNCHANGED <<checkpoint, players, team_stints, cache>>
              /\ player_careers' = player_careers ]_vars

\* the second run has failed in discovery and the index entry that the first
\* run left is as it was
C25_Witness ==
  /\ run = 2
  /\ pc = "off"
  /\ stageEnd = "raised"
  /\ exit_code = "1"
  /\ cache[IndexKey] = "empty"
  /\ ~careersRan

====
